---------------------------- MODULE Spec2Model ----------------------------
(***************************************************************************)
(* ExtractURL (Packs/CommonScripts/Scripts/ExtractURL/ExtractURL.py):      *)
(* normalisation of a defanged / wrapped URL (format_url), one-hop         *)
(* redirect resolution (expand_url) and the script entry point (main).     *)
(*                                                                         *)
(* A Python str is a sequence of one-character strings, so that the string *)
(* transforms (startswith, replace, lower, the regular expressions,        *)
(* unescape, unquote, parse_qs) are computed character by character.       *)
(***************************************************************************)
EXTENDS Integers, Sequences, FiniteSets, TLC

VARIABLES
    input,      \* the argument of the operation about to be invoked
    strict,     \* the interpreter's urlsplit validates bracketed hosts
    pc,         \* "ready" before the operation, "done" after it
    call,       \* record of the operation that ran (name, argument, outcome)
    results,    \* values handed to demisto.results by main
    errors,     \* messages handed to return_error by main
    log,        \* diagnostics written with demisto.error / demisto.debug
    fetches     \* number of urlopen calls made

vars == <<input, strict, pc, call, results, errors, log, fetches>>

(***************************************************************************)
(* Bounds of the model.                                                    *)
(***************************************************************************)
\* number of fragments appended after the scheme and separator of an
\* input of replace_protocol
MaxTail == 1
\* number of free fragments of an input of format_url
MaxFrags == 1

(***************************************************************************)
(* str primitives.                                                         *)
(***************************************************************************)
StartsWith(s, p) == Len(p) <= Len(s) /\ SubSeq(s, 1, Len(p)) = p

EndsWith(s, p) == Len(p) <= Len(s) /\ SubSeq(s, Len(s) - Len(p) + 1, Len(s)) = p

MatchAt(s, i, p) == i >= 1 /\ i + Len(p) - 1 <= Len(s) /\ SubSeq(s, i, i + Len(p) - 1) = p

\* The one member of a singleton set.  An intermediate value v of a
\* computation is bound as  Only({ F(v) : v \in {e} }),  which computes e once.
Only(S) == CHOOSE x \in S : TRUE

\* the least member of a non-empty set of numbers, 0 for the empty set
Least(S) == IF S = {} THEN 0 ELSE CHOOSE j \in S : \A k \in S : j <= k

\* str.find from position i (1-based); 0 when absent
Find(s, p, i) ==
    Only({Least(hits) : hits \in {{j \in i..(Len(s) - Len(p) + 1) : MatchAt(s, j, p)}}})

Contains(s, p) == Find(s, p, 1) # 0

Drop(s, n) == SubSeq(s, n + 1, Len(s))

RECURSIVE ReplaceFrom(_, _, _, _)
\* s[i..] with every occurrence of old replaced, one step per occurrence
ReplaceFrom(s, i, old, new) ==
    Only({IF j = 0 THEN SubSeq(s, i, Len(s))
          ELSE SubSeq(s, i, j - 1) \o new \o ReplaceFrom(s, j + Len(old), old, new) :
          j \in {Find(s, old, i)}})

\* str.replace(old, new) with a non-empty old: every non-overlapping
\* occurrence, left to right
Replace(s, old, new) == ReplaceFrom(s, 1, old, new)

UpperAZ == <<"A", "B", "C", "D", "E", "F", "G", "H", "I", "J", "K", "L", "M",
             "N", "O", "P", "Q", "R", "S", "T", "U", "V", "W", "X", "Y", "Z">>

LowerAZ == <<"a", "b", "c", "d", "e", "f", "g", "h", "i", "j", "k", "l", "m",
             "n", "o", "p", "q", "r", "s", "t", "u", "v", "w", "x", "y", "z">>

Digits == <<"0", "1", "2", "3", "4", "5", "6", "7", "8", "9">>

Range(f) == {f[i] : i \in DOMAIN f}

LowerChar(c) ==
    IF c \in Range(UpperAZ) THEN LowerAZ[CHOOSE i \in DOMAIN UpperAZ : UpperAZ[i] = c] ELSE c

\* str.lower
Lower(s) == [i \in DOMAIN s |-> LowerChar(s[i])]

(***************************************************************************)
(* Characters: printable ASCII, code points 32..126.  Code points outside  *)
(* it are outside the alphabet of the inputs; a decoder that produces one  *)
(* yields the token Other.  The grave accent, which a TLA+ string cannot    *)
(* hold, is written U+0060.                                                *)
(***************************************************************************)
Ascii ==
    << " ", "!", "\"", "#", "$", "%", "&", "'", "(", ")", "*", "+",
       ",", "-", ".", "/", "0", "1", "2", "3", "4", "5", "6", "7",
       "8", "9", ":", ";", "<", "=", ">", "?", "@", "A", "B", "C",
       "D", "E", "F", "G", "H", "I", "J", "K", "L", "M", "N", "O",
       "P", "Q", "R", "S", "T", "U", "V", "W", "X", "Y", "Z", "[",
       "\\", "]", "^", "_", "U+0060", "a", "b", "c", "d", "e", "f", "g",
       "h", "i", "j", "k", "l", "m", "n", "o", "p", "q", "r", "s",
       "t", "u", "v", "w", "x", "y", "z", "{", "|", "}", "~" >>

Other == "U+FFFD"

Chr(n) == IF n \in 32..126 THEN Ascii[n - 31] ELSE Other

HexDigits == <<"0", "1", "2", "3", "4", "5", "6", "7", "8", "9",
               "a", "b", "c", "d", "e", "f">>

HexChars == {c \in Range(Ascii) : LowerChar(c) \in Range(HexDigits)}

IsHex(c) == c \in HexChars

HexVal(c) == (CHOOSE i \in DOMAIN HexDigits : HexDigits[i] = LowerChar(c)) - 1

\* \w of the re module, on ASCII
WordChars == Range(UpperAZ) \cup Range(LowerAZ) \cup Range(Digits) \cup {"_"}

RECURSIVE ToNumber(_, _)
\* int(s, base)
ToNumber(s, base) ==
    IF s = <<>> THEN 0
    ELSE ToNumber(SubSeq(s, 1, Len(s) - 1), base) * base + HexVal(s[Len(s)])

\* the length of the longest run s[i..] of characters of the set ok
RunLength(s, i, ok) ==
    Only({IF i > Len(s) THEN 0
          ELSE IF stops = {} THEN Len(s) + 1 - i
          ELSE Least(stops) - i :
          stops \in {{j \in i..Len(s) : s[j] \notin ok}}})

(***************************************************************************)
(* urllib.parse.unquote: every %XX with two hexadecimal digits becomes the *)
(* character with that code; any other % stays.                            *)
(***************************************************************************)
RECURSIVE UnquoteFrom(_, _)
\* s[i..] unquoted, one step per escape
UnquoteFrom(s, i) ==
    Only({IF j = 0 THEN SubSeq(s, i, Len(s))
          ELSE SubSeq(s, i, j - 1)
                  \o <<Chr(16 * HexVal(s[j + 1]) + HexVal(s[j + 2]))>>
                  \o UnquoteFrom(s, j + 3) :
          j \in {Least({k \in i..(Len(s) - 2) :
                          s[k] = "%" /\ IsHex(s[k + 1]) /\ IsHex(s[k + 2])})}})

unquote(s) == UnquoteFrom(s, 1)

(***************************************************************************)
(* html.unescape: character references &#D; &#xH; and named references,   *)
(* the trailing ; optional.  A name that is no entity is replaced by its   *)
(* longest proper prefix (of two or more characters) that is one.          *)
(***************************************************************************)
\* the entries of html.entities.html5 that strings over the input alphabet
\* can name: each exists with and without its semicolon
HtmlEntities ==
    { [name |-> <<"a", "m", "p">>, char |-> "&"],
      [name |-> <<"l", "t">>, char |-> "<"],
      [name |-> <<"g", "t">>, char |-> ">"],
      [name |-> <<"q", "u", "o", "t">>, char |-> "\""] }

Html5 ==
    {[name |-> e.name, char |-> e.char] : e \in HtmlEntities}
        \cup {[name |-> e.name \o <<";">>, char |-> e.char] : e \in HtmlEntities}

IsEntity(n) == \E e \in Html5 : e.name = n

EntityChar(n) == (CHOOSE e \in Html5 : e.name = n).char

\* [^\t\n\f <&#;]
NameChars == (Range(Ascii) \cup {Other}) \ {" ", "<", "&", "#", ";"}

Min(a, b) == IF a < b THEN a ELSE b

\* replace_charref for a named reference s (group 1 of the regular expression)
NamedRef(s) ==
    IF IsEntity(s) THEN <<EntityChar(s)>>
    ELSE Only({IF cuts = {} THEN <<"&">> \o s
               ELSE Only({<<EntityChar(SubSeq(s, 1, x))>> \o Drop(s, x) :
                          x \in {CHOOSE c \in cuts : \A d \in cuts : d <= c}}) :
               cuts \in {{x \in 2..(Len(s) - 1) : IsEntity(SubSeq(s, 1, x))}}})

\* The character reference that starts at the ampersand s[i]: the text that
\* replaces it and the position after it; the ampersand itself when none does.
\* The alternatives of the regular expression, in its order: &#D, &#xH, &name
CharRef(s, i) ==
    Only({IF i + 1 <= Len(s) /\ s[i + 1] = "#" /\ dec > 0
          THEN [text |-> <<Chr(ToNumber(SubSeq(s, i + 2, i + 1 + dec), 10))>>,
                next |-> i + 2 + dec + (IF MatchAt(s, i + 2 + dec, <<";">>) THEN 1 ELSE 0)]
          ELSE IF i + 2 <= Len(s) /\ s[i + 1] = "#" /\ s[i + 2] \in {"x", "X"} /\ hex > 0
          THEN [text |-> <<Chr(ToNumber(SubSeq(s, i + 3, i + 2 + hex), 16))>>,
                next |-> i + 3 + hex + (IF MatchAt(s, i + 3 + hex, <<";">>) THEN 1 ELSE 0)]
          ELSE IF name > 0
          THEN Only({[text |-> NamedRef(SubSeq(s, i + 1, end - 1)), next |-> end] :
                     end \in {i + 1 + name
                                + (IF MatchAt(s, i + 1 + name, <<";">>) THEN 1 ELSE 0)}})
          ELSE [text |-> <<"&">>, next |-> i + 1] :
          dec \in {RunLength(s, i + 2, Range(Digits))},
          hex \in {RunLength(s, i + 3, HexChars)},
          name \in {Min(32, RunLength(s, i + 1, NameChars))}})

RECURSIVE UnescapeFrom(_, _)
\* s[i..] unescaped, one step per ampersand
UnescapeFrom(s, i) ==
    Only({IF j = 0 THEN SubSeq(s, i, Len(s))
          ELSE Only({SubSeq(s, i, j - 1) \o ref.text \o UnescapeFrom(s, ref.next) :
                     ref \in {CharRef(s, j)}}) :
          j \in {Find(s, <<"&">>, i)}})

unescape(s) == UnescapeFrom(s, 1)

(***************************************************************************)
(* Module constants.                                                       *)
(***************************************************************************)
HTTP == <<"h", "t", "t", "p">>

\* a Python set: its iteration order is not specified
PREFIX_TO_NORMALIZE ==
    { <<"h", "x", "x", "p">>, <<"m", "e", "o", "w">>, <<"h", "X", "X", "p">> }

\* the orders in which the set may be iterated
PrefixOrders ==
    {o \in [1..Cardinality(PREFIX_TO_NORMALIZE) -> PREFIX_TO_NORMALIZE] :
        \A i, j \in DOMAIN o : i # j => o[i] # o[j]}

None == <<"None">>

PREFIX_CHANGES_NoExclusion ==
    << [starts_with |-> <<"h", "t", "t", "p", "s", ":", "/">>,
        does_not_start_with |-> <<"h", "t", "t", "p", "s", ":", "/", "/">>,
        to_replace |-> <<"h", "t", "t", "p", "s", ":", "/", "/">>],
       [starts_with |-> <<"h", "t", "t", "p", ":", "/">>,
        does_not_start_with |-> None,
        to_replace |-> <<"h", "t", "t", "p", ":", "/", "/">>],
       [starts_with |-> <<"h", "t", "t", "p", "s", ":", "\\">>,
        does_not_start_with |-> <<"h", "t", "t", "p", "s", ":", "\\", "\\">>,
        to_replace |-> <<"h", "t", "t", "p", "s", ":", "/", "/">>],
       [starts_with |-> <<"h", "t", "t", "p", ":", "\\">>,
        does_not_start_with |-> <<"h", "t", "t", "p", ":", "\\", "\\">>,
        to_replace |-> <<"h", "t", "t", "p", ":", "/", "/">>],
       [starts_with |-> <<"h", "t", "t", "p", "s", ":", "\\", "\\">>,
        does_not_start_with |-> None,
        to_replace |-> <<"h", "t", "t", "p", "s", ":", "/", "/">>],
       [starts_with |-> <<"h", "t", "t", "p", ":", "\\", "\\">>,
        does_not_start_with |-> None,
        to_replace |-> <<"h", "t", "t", "p", ":", "/", "/">>] >>

\* (starts_with, does_not_start_with, replace to), in table order
PREFIX_CHANGES ==
    << [starts_with |-> <<"h", "t", "t", "p", "s", ":", "/">>,
        does_not_start_with |-> <<"h", "t", "t", "p", "s", ":", "/", "/">>,
        to_replace |-> <<"h", "t", "t", "p", "s", ":", "/", "/">>],
       [starts_with |-> <<"h", "t", "t", "p", ":", "/">>,
        does_not_start_with |-> <<"h", "t", "t", "p", ":", "/", "/">>,
        to_replace |-> <<"h", "t", "t", "p", ":", "/", "/">>],
       [starts_with |-> <<"h", "t", "t", "p", "s", ":", "\\">>,
        does_not_start_with |-> <<"h", "t", "t", "p", "s", ":", "\\", "\\">>,
        to_replace |-> <<"h", "t", "t", "p", "s", ":", "/", "/">>],
       [starts_with |-> <<"h", "t", "t", "p", ":", "\\">>,
        does_not_start_with |-> <<"h", "t", "t", "p", ":", "\\", "\\">>,
        to_replace |-> <<"h", "t", "t", "p", ":", "/", "/">>],
       [starts_with |-> <<"h", "t", "t", "p", "s", ":", "\\", "\\">>,
        does_not_start_with |-> None,
        to_replace |-> <<"h", "t", "t", "p", "s", ":", "/", "/">>],
       [starts_with |-> <<"h", "t", "t", "p", ":", "\\", "\\">>,
        does_not_start_with |-> None,
        to_replace |-> <<"h", "t", "t", "p", ":", "/", "/">>] >>

(***************************************************************************)
(* replace_protocol.                                                       *)
(***************************************************************************)
RECURSIVE NormalizePrefixes(_, _, _)
\* the loop over PREFIX_TO_NORMALIZE, visiting the set in the order `order`
NormalizePrefixes(url_, order, i) ==
    IF i > Len(order) THEN url_
    ELSE Only({NormalizePrefixes(next, order, i + 1) :
               next \in {IF StartsWith(url_, order[i])
                         THEN Replace(url_, order[i], HTTP) ELSE url_}})

\* RuleFires without the does_not_start_with test
RuleFires_NoExclusion(rule, lowercase_url) == StartsWith(lowercase_url, rule.starts_with)

\* the condition of the if inside the loop over PREFIX_CHANGES
RuleFires(rule, lowercase_url) ==
    /\ StartsWith(lowercase_url, rule.starts_with)
    /\ \/ rule.does_not_start_with = None
       \/ ~StartsWith(lowercase_url, rule.does_not_start_with)

RECURSIVE ApplyPrefixChanges(_, _, _)
\* the loop over PREFIX_CHANGES: every rule is visited, each tested against
\* the lowercase copy taken before the loop, each replace applied to url_
ApplyPrefixChanges(url_, lowercase_url, i) ==
    IF i > Len(PREFIX_CHANGES) THEN url_
    ELSE Only({ApplyPrefixChanges(next, lowercase_url, i + 1) :
               next \in {IF RuleFires(PREFIX_CHANGES[i], lowercase_url)
                         THEN Replace(url_, PREFIX_CHANGES[i].starts_with,
                                      PREFIX_CHANGES[i].to_replace)
                         ELSE url_}})

RuleTablePass(url_) ==
    Only({ApplyPrefixChanges(url_, lowercase_url, 1) : lowercase_url \in {Lower(url_)}})

replace_protocol(url_, order) ==
    Only({RuleTablePass(normalized) : normalized \in {NormalizePrefixes(url_, order, 1)}})

(***************************************************************************)
(* urllib.parse.urlparse, as far as format_url depends on it: the query    *)
(* component, and the ValueError raised for a malformed bracketed host.    *)
(***************************************************************************)
SchemeChars == Range(UpperAZ) \cup Range(LowerAZ) \cup Range(Digits) \cup {"+", "-", "."}

\* the position of the first character of s[from..] in chars; Len(s) + 1 if none
FirstOf(s, chars, from) ==
    Only({IF hits = {} THEN Len(s) + 1 ELSE Least(hits) :
          hits \in {{j \in from..Len(s) : s[j] \in chars}}})

\* the url with its scheme (the text before the first colon, when that is a
\* letter followed by scheme characters) and that colon removed
AfterScheme(url) ==
    Only({IF /\ i > 1
             /\ url[1] \in Range(UpperAZ) \cup Range(LowerAZ)
             /\ \A k \in 1..(i - 1) : url[k] \in SchemeChars
          THEN Drop(url, i) ELSE url :
          i \in {Find(url, <<":">>, 1)}})

\* ipaddress.ip_address / the IPvFuture pattern accept the bracketed host:
\* a necessary condition (colons, hexadecimal digits and dots only, two
\* colons at least; or v, hexadecimal digits, a dot, more text)
IsIPLiteral(host) ==
    IF StartsWith(host, <<"v">>)
    THEN Only({h > 0 /\ MatchAt(host, h + 2, <<".">>) /\ Len(host) > h + 2 :
               h \in {RunLength(host, 2, HexChars)}})
    ELSE /\ \A k \in DOMAIN host : host[k] \in HexChars \cup {":", "."}
         /\ Cardinality({k \in DOMAIN host : host[k] = ":"}) >= 2

\* the text of netloc between its first [ and the ] after it
BracketedHost(netloc) ==
    Only({SubSeq(after, 1, FirstOf(after, {"]"}, 1) - 1) :
          after \in {Drop(netloc, Find(netloc, <<"[">>, 1))}})

\* the query of the url left after scheme and netloc: what follows the first
\* ? of the part before the first #
QueryOf(path) ==
    Only({Only({IF mark = 0 THEN <<>> ELSE Drop(noFrag, mark) :
                mark \in {Find(noFrag, <<"?">>, 1)}}) :
          noFrag \in {SubSeq(path, 1, FirstOf(path, {"#"}, 1) - 1)}})

\* the netloc (the text after // up to the first / ? or #, empty without //)
\* and the rest of the url after its scheme has been removed
SplitNetloc(rest) ==
    IF ~StartsWith(rest, <<"/", "/">>) THEN [netloc |-> <<>>, path |-> rest]
    ELSE Only({[netloc |-> SubSeq(rest, 3, locEnd - 1), path |-> Drop(rest, locEnd - 1)] :
               locEnd \in {FirstOf(rest, {"/", "?", "#"}, 3)}})

\* the checks of the netloc, then the query.  strictMode is whether this
\* interpreter's urlsplit validates the host written between brackets
ParseResult(netloc, path, strictMode) ==
    Only({IF (open # 0 /\ close = 0) \/ (close # 0 /\ open = 0)
          THEN [exc |-> "ValueError", query |-> <<>>]
          ELSE IF strictMode /\ open # 0 /\ close # 0
                  /\ ~Only({IsIPLiteral(host) : host \in {BracketedHost(netloc)}})
          THEN [exc |-> "ValueError", query |-> <<>>]
          ELSE [exc |-> "none", query |-> QueryOf(path)] :
          open \in {Find(netloc, <<"[">>, 1)},
          close \in {Find(netloc, <<"]">>, 1)}})

\* urlparse(url): the exception it raises, or "none" and the query component
urlparse(url, strictMode) ==
    Only({ParseResult(split.netloc, split.path, strictMode) :
          split \in {Only({SplitNetloc(rest) : rest \in {AfterScheme(url)}})}})

(***************************************************************************)
(* urllib.parse.parse_qs: the values of one parameter, in order.           *)
(***************************************************************************)
RECURSIVE SplitOn(_, _)
\* str.split(c)
SplitOn(s, c) ==
    Only({IF i = 0 THEN <<s>>
          ELSE Only({<<SubSeq(s, 1, i - 1)>> \o SplitOn(rest, c) : rest \in {Drop(s, i)}}) :
          i \in {Find(s, <<c>>, 1)}})

PlusToSpace(s) == [i \in DOMAIN s |-> IF s[i] = "+" THEN " " ELSE s[i]]

\* one name=value field as parse_qsl reads it: kept when it has an = and a
\* non-empty value; name and value with + as a space, then unquoted
QueryField(nv) ==
    Only({IF eq = 0 \/ Len(nv) = eq THEN [kept |-> FALSE]
          ELSE [kept  |-> TRUE,
                name  |-> Only({unquote(n) : n \in {PlusToSpace(SubSeq(nv, 1, eq - 1))}}),
                value |-> Only({unquote(v) : v \in {PlusToSpace(Drop(nv, eq))}})] :
          eq \in {Find(nv, <<"=">>, 1)}})

\* parse_qs(qs).get(name, []): the fields are separated by &
parse_qs_get(qs, name) ==
    Only({Only({[i \in DOMAIN kept |-> kept[i].value] :
                kept \in {SelectSeq(fields, LAMBDA f : f.kept /\ f.name = name)}}) :
          fields \in {Only({[i \in DOMAIN pairs |-> QueryField(pairs[i])] :
                            pairs \in {IF qs = <<>> THEN <<>> ELSE SplitOn(qs, "&")}})}})

(***************************************************************************)
(* The wrapper patterns.                                                   *)
(***************************************************************************)
SafeLinksHost == <<".", "s", "a", "f", "e", "l", "i", "n", "k", "s", ".", "p", "r", "o", "t", "e", "c", "t", "i", "o", "n", ".", "o", "u", "t", "l", "o", "o", "k", ".", "c", "o", "m", "/">>

HttpsPrefix == <<"h", "t", "t", "p", "s", ":", "/", "/">>

UrlParam == <<"?", "u", "r", "l", "=">>

\* re.match(ATP_REGEX, s):
\* (https://\w*|\w*)\.safelinks\.protection\.outlook\.com/.*\?url=
AtpMatch(s) ==
    Only({/\ MatchAt(s, host, SafeLinksHost)
          /\ Find(s, UrlParam, host + Len(SafeLinksHost)) # 0 :
          host \in {Only({q + 1 + RunLength(s, q + 1, WordChars) :
                          q \in {IF StartsWith(s, HttpsPrefix) THEN Len(HttpsPrefix) ELSE 0}})}})

UrlDefense == <<"h", "t", "t", "p", "s", ":", "/", "/", "u", "r", "l", "d", "e", "f", "e", "n", "s", "e">>

DotProofpoint == <<".", "p", "r", "o", "o", "f", "p", "o", "i", "n", "t">>

\* the position after a match of
\* https://urldefense(?:\.proofpoint)?\.(com|us)/(v[0-9])/ at i, 0 if none;
\* the version digit is the character two places before it
ProofPointEnd(s, i) ==
    IF ~MatchAt(s, i, UrlDefense) THEN 0
    ELSE Only({IF /\ t # 0
                  /\ MatchAt(s, t, <<"/", "v">>)
                  /\ t + 3 <= Len(s)
                  /\ s[t + 2] \in Range(Digits)
                  /\ s[t + 3] = "/"
               THEN t + 4 ELSE 0 :
               t \in {Only({IF MatchAt(s, d, <<".", "c", "o", "m">>) THEN d + 4
                            ELSE IF MatchAt(s, d, <<".", "u", "s">>) THEN d + 3 ELSE 0 :
                            d \in {IF MatchAt(s, i + Len(UrlDefense), DotProofpoint)
                                   THEN i + Len(UrlDefense) + Len(DotProofpoint)
                                   ELSE i + Len(UrlDefense)}})}})

\* PROOF_POINT_URL_REG.search(s).group(2) of the leftmost match: "v" and a
\* digit; <<>> when the pattern does not occur
ProofPointVersion(s) ==
    Only({IF i = 0 THEN <<>> ELSE <<"v", s[ProofPointEnd(s, i) - 2]>> :
          i \in {Least({h \in DOMAIN s : ProofPointEnd(s, h) # 0})}})

(***************************************************************************)
(* The unwrappers.  Each returns the string and the diagnostics it wrote.  *)
(***************************************************************************)
NoRedirectNote == [level |-> "error", text |-> "Could not find redirected URL"]

DuplicateNote == [level |-> "debug", text |-> "Found more than one URL query parameters"]

NoProofPointNote == [level |-> "error", text |-> "Could not parse Proof Point redirected URL"]

get_redirect_url_from_query(non_formatted_url, query, redirect_param_name) ==
    Only({IF query_urls = <<>>
          THEN [ret |-> non_formatted_url, notes |-> <<NoRedirectNote>>]
          ELSE [ret |-> query_urls[1],
                notes |-> IF Len(query_urls) > 1 THEN <<DuplicateNote>> ELSE <<>>] :
          query_urls \in {parse_qs_get(query, redirect_param_name)}})

\* str.translate(str.maketrans('-_', '%/'))
Translate(s) ==
    [i \in DOMAIN s |-> IF s[i] = "-" THEN "%" ELSE IF s[i] = "_" THEN "/" ELSE s[i]]

get_redirect_url_proof_point_v2(non_formatted_url, query) ==
    Only({[ret |-> Translate(found.ret), notes |-> found.notes] :
          found \in {get_redirect_url_from_query(non_formatted_url, query, <<"u">>)}})

V3Open == <<"v", "3", "/", "_", "_">>

V3Close == <<"_", "_", ";">>

\* the ends j of a match of v3/__(?P<url>.+?)__;(?P<enc_bytes>.*?)! that
\* starts at i: url is s[i+5 .. j-1], __; is at j and a ! follows it
V3Ends(s, i) ==
    IF ~MatchAt(s, i, V3Open) THEN {}
    ELSE {j \in (i + Len(V3Open) + 1)..Len(s) :
            MatchAt(s, j, V3Close) /\ Find(s, <<"!">>, j + Len(V3Close)) # 0}

get_redirect_url_proof_point_v3(non_formatted_url) ==
    Only({IF i = 0
          THEN [ret |-> non_formatted_url, notes |-> <<NoProofPointNote>>]
          ELSE Only({[ret |-> SubSeq(non_formatted_url, i + Len(V3Open), j - 1),
                      notes |-> <<>>] :
                     j \in {Least(V3Ends(non_formatted_url, i))}}) :
          i \in {Least({a \in DOMAIN non_formatted_url : V3Ends(non_formatted_url, a) # {}})}})

(***************************************************************************)
(* format_url.                                                             *)
(***************************************************************************)
BracketDot == <<"[", ".", "]">>

\* the wrapper detection and extraction (the if / elif chain)
Unwrap(non_formatted_url, query) ==
    IF AtpMatch(non_formatted_url)
    THEN get_redirect_url_from_query(non_formatted_url, query, <<"u", "r", "l">>)
    ELSE Only({IF proof_point_ver = <<>>
               THEN [ret |-> non_formatted_url, notes |-> <<>>]
               ELSE IF proof_point_ver = <<"v", "3">>
               THEN get_redirect_url_proof_point_v3(non_formatted_url)
               ELSE IF proof_point_ver = <<"v", "2">>
               THEN get_redirect_url_proof_point_v2(non_formatted_url, query)
               ELSE get_redirect_url_from_query(non_formatted_url, query, <<"u">>) :
               proof_point_ver \in {ProofPointVersion(non_formatted_url)}})

\* unquote(unescape(url_.replace('[.]', '.')))
Unescaped(url_) ==
    Only({unquote(plain) :
          plain \in {Only({unescape(dotted) :
                           dotted \in {Replace(url_, BracketDot, <<".">>)}})}})

\* what format_url does once urlparse has returned
FormatParsed(non_formatted_url, query, order) ==
    Only({[exc |-> "none",
           ret |-> Only({replace_protocol(plain, order) :
                         plain \in {Unescaped(unwrapped.ret)}}),
           notes |-> unwrapped.notes] :
          unwrapped \in {Unwrap(non_formatted_url, query)}})

\* format_url with the bracketed dots replaced ahead of everything else
format_url_UndefangFirst(non_formatted_url, strictMode, order) ==
    Only({Only({IF parse_results.exc # "none"
                THEN [exc |-> parse_results.exc, ret |-> <<>>, notes |-> <<>>]
                ELSE FormatParsed(dotted, parse_results.query, order) :
                parse_results \in {urlparse(dotted, strictMode)}}) :
          dotted \in {Replace(non_formatted_url, BracketDot, <<".">>)}})

\* format_url(non_formatted_url): exc is the exception that left it, ret the
\* returned string, notes the diagnostics written
format_url(non_formatted_url, strictMode, order) ==
    Only({IF parse_results.exc # "none"
          THEN [exc |-> parse_results.exc, ret |-> <<>>, notes |-> <<>>]
          ELSE FormatParsed(non_formatted_url, parse_results.query, order) :
          parse_results \in {urlparse(non_formatted_url, strictMode)}})

(***************************************************************************)
(* The values main handles: the argument may be a str, missing (None) or   *)
(* of another type; expand_url returns a set.                              *)
(***************************************************************************)
Str(s) == [type |-> "str", val |-> s]

NoneValue == [type |-> "NoneType", val |-> <<>>]

IntValue == [type |-> "int", val |-> <<>>]

SetOf(S) == [type |-> "set", val |-> S]

(***************************************************************************)
(* urllib.request.urlopen(url, timeout=1): what one call can do.           *)
(***************************************************************************)
\* an address a redirect leads to
FinalUrl == <<"h", "t", "t", "p", "s", ":", "/", "/", "f", "i", "n", "a", "l", ".", "e", "x", "a", "m", "p", "l", "e", "/", "l", "a", "n", "d", "i", "n", "g">>

\* the url has a scheme:  [^/:]+:  matches at its start
HasScheme(url) ==
    Only({i > 1 /\ i <= Len(url) /\ url[i] = ":" : i \in {FirstOf(url, {"/", ":"}, 1)}})

SchemeOf(url) == Lower(SubSeq(url, 1, FirstOf(url, {"/", ":"}, 1) - 1))

\* the schemes urllib.request has a handler for
HandledSchemes ==
    { <<"h", "t", "t", "p">>, <<"h", "t", "t", "p", "s">>, <<"f", "t", "p">>,
      <<"f", "i", "l", "e">>, <<"d", "a", "t", "a">> }

\* the schemes whose handler raises URLError('no host given') without a host
HostSchemes == { <<"h", "t", "t", "p">>, <<"h", "t", "t", "p", "s">>, <<"f", "t", "p">> }

\* the host of the request:  //([^/#?]*)  at the start of what follows the
\* scheme, empty if there is none
HostOf(url) ==
    Only({IF StartsWith(rest, <<"/", "/">>)
          THEN SubSeq(rest, 3, FirstOf(rest, {"/", "#", "?"}, 3) - 1)
          ELSE <<>> :
          rest \in {Drop(url, FirstOf(url, {"/", ":"}, 1))}})

\* The exceptions a fetch ends with: HTTPError (an error status), URLError
\* (no such host, refused, timed out while connecting, no handler for the
\* scheme), ValueError (no scheme, malformed host), TimeoutError (timed out
\* while reading the response), HTTPException (a malformed response, the
\* connection closed without one, a URL the http client rejects)
FetchFailures == {"HTTPError", "URLError", "ValueError", "TimeoutError", "HTTPException"}

Failed(kind) == [kind |-> kind, url |-> <<>>]

Fetched(url) == [kind |-> "ok", url |-> url]

\* the outcomes of urlopen(v, timeout=1).url
UrlopenOutcomes(v) ==
    IF v.type # "str" THEN {Failed("AttributeError")}
    ELSE IF ~HasScheme(v.val) THEN {Failed("ValueError")}
    ELSE IF SchemeOf(v.val) \notin HandledSchemes THEN {Failed("URLError")}
    ELSE IF SchemeOf(v.val) \in HostSchemes /\ HostOf(v.val) = <<>> THEN {Failed("URLError")}
    ELSE {Fetched(v.val), Fetched(FinalUrl)} \cup {Failed(k) : k \in FetchFailures}

(***************************************************************************)
(* expand_url and main.                                                    *)
(***************************************************************************)
\* except (HTTPError, ValueError, URLError)
CaughtByExpandUrl == {"HTTPError", "ValueError", "URLError"}

\* expand_url(formatted_url) when its urlopen call ends with outcome
expand_url(formatted_url, outcome) ==
    IF outcome.kind = "ok"
    THEN [exc |-> "none", ret |-> {formatted_url.val, outcome.url}]
    ELSE IF outcome.kind \in CaughtByExpandUrl
    THEN [exc |-> "none", ret |-> {formatted_url.val}]
    ELSE [exc |-> outcome.kind, ret |-> {}]

\* format_url applied to any value: urlparse raises AttributeError for a
\* non-empty value that is neither str nor bytes
FormatValue(v, strictMode, order) ==
    IF v.type = "str" THEN format_url(v.val, strictMode, order)
    ELSE [exc |-> "AttributeError", ret |-> <<>>, notes |-> <<>>]

TracebackNote == [level |-> "error", text |-> "traceback"]

ErrorReport(exc) == [message |-> "Failed to execute ExtractURL. Error:", error |-> exc]

\* demisto.results(format_url(expand_url(arg))) without the try
MainBody(arg, outcome, strictMode, order) ==
    Only({IF expanded.exc # "none"
          THEN [exc |-> expanded.exc, ret |-> <<>>, notes |-> <<>>]
          ELSE FormatValue(SetOf(expanded.ret), strictMode, order) :
          expanded \in {expand_url(arg, outcome)}})

main_Uncaught(arg, outcome, strictMode, order) ==
    Only({IF body.exc = "none"
          THEN [exc |-> "none", results |-> <<body.ret>>, errors |-> <<>>, log |-> body.notes]
          ELSE [exc |-> body.exc, results |-> <<>>, errors |-> <<>>, log |-> <<>>] :
          body \in {MainBody(arg, outcome, strictMode, order)}})

\* main(): exc is the exception that leaves it, results what it hands to
\* demisto.results, errors what it hands to return_error, log what it logs
main(arg, outcome, strictMode, order) ==
    Only({IF body.exc = "none"
          THEN [exc |-> "none", results |-> <<body.ret>>, errors |-> <<>>, log |-> body.notes]
          ELSE [exc |-> "none", results |-> <<>>, errors |-> <<ErrorReport(body.exc)>>,
                log |-> <<TracebackNote>>] :
          body \in {MainBody(arg, outcome, strictMode, order)}})

(***************************************************************************)
(* Inputs of replace_protocol: a scheme token, an optional s, a separator  *)
(* and up to MaxTail further fragments.                                    *)
(***************************************************************************)
SchemeTokens ==
    { <<"h", "x", "x", "p">>, <<"H", "X", "X", "P">>, <<"H", "x", "x", "p">>,
      <<"h", "X", "x", "P">>, <<"h", "X", "X", "p">>, <<"m", "e", "o", "w">>,
      <<"M", "e", "o", "w">>, <<"h", "t", "t", "p">>, <<"H", "T", "T", "P">>,
      <<"H", "t", "t", "p">>, <<"f", "t", "p">>, <<>> }

SchemeSuffixes == { <<>>, <<"s">>, <<"S">> }

Separators ==
    { <<>>, <<":", "/">>, <<":", "/", "/">>, <<":", "\\">>, <<":", "\\", "\\">>,
      <<":">> }

TailFrags ==
    { <<"x">>, <<"/", "h", "x", "x", "p">>, <<"/", "m", "e", "o", "w">>,
      <<"/", "h", "t", "t", "p", ":", "/", "y">>,
      <<"?", "h", "t", "t", "p", ":", "\\", "y">>,
      <<"?", "h", "t", "t", "p", "s", ":", "\\", "\\", "y">> }

RECURSIVE Concats(_, _)
\* the concatenations of at most n members of frags
Concats(frags, n) ==
    IF n = 0 THEN { <<>> }
    ELSE LET shorter == Concats(frags, n - 1)
         IN  shorter \cup {s \o f : s \in shorter, f \in frags}

ProtocolInputs ==
    {t \o s \o sep \o tail :
        t \in SchemeTokens, s \in SchemeSuffixes, sep \in Separators,
        tail \in Concats(TailFrags, MaxTail)}

NoCall == [fn |-> "none"]

InitProtocol ==
    /\ input \in ProtocolInputs
    /\ strict = FALSE
    /\ pc = "ready"
    /\ call = NoCall
    /\ results = <<>>
    /\ errors = <<>>
    /\ log = <<>>
    /\ fetches = 0

\* replace_protocol(input)
CallReplaceProtocol ==
    /\ pc = "ready"
    /\ \E order \in PrefixOrders :
        \E normalized \in {NormalizePrefixes(input, order, 1)} :
            call' = [fn |-> "replace_protocol", arg |-> input,
                     mid |-> normalized,
                     ret |-> replace_protocol(input, order)]
    /\ pc' = "done"
    /\ UNCHANGED <<input, strict, results, errors, log, fetches>>

NextProtocol == CallReplaceProtocol

SpecProtocol == InitProtocol /\ [][NextProtocol]_vars

(***************************************************************************)
(* Inputs of format_url and of the unwrappers: a head (nothing, a plain or *)
(* defanged URL, a wrapper host) and up to MaxFrags further fragments.     *)
(***************************************************************************)
FormatHeads ==
    { <<>>,
      <<"h", "x", "x", "p", ":", "/", "/", "e", "v", "i", "l", "[", ".", "]", "c", "o", "m", "/", "a">>,
      <<"h", "t", "t", "p", "s", ":", "/", "/", "f", "o", "o", ".", "s", "a", "f", "e", "l", "i", "n", "k", "s", ".", "p", "r", "o", "t", "e", "c", "t", "i", "o", "n", ".", "o", "u", "t", "l", "o", "o", "k", ".", "c", "o", "m", "/">>,
      <<"h", "x", "x", "p", "s", ":", "/", "/", "f", "o", "o", "[", ".", "]", "s", "a", "f", "e", "l", "i", "n", "k", "s", "[", ".", "]", "p", "r", "o", "t", "e", "c", "t", "i", "o", "n", "[", ".", "]", "o", "u", "t", "l", "o", "o", "k", "[", ".", "]", "c", "o", "m", "/">>,
      <<"f", "o", "o", "[", ".", "]", "s", "a", "f", "e", "l", "i", "n", "k", "s", "[", ".", "]", "p", "r", "o", "t", "e", "c", "t", "i", "o", "n", "[", ".", "]", "o", "u", "t", "l", "o", "o", "k", "[", ".", "]", "c", "o", "m", "/">>,
      <<"h", "t", "t", "p", "s", ":", "/", "/", "u", "r", "l", "d", "e", "f", "e", "n", "s", "e", ".", "p", "r", "o", "o", "f", "p", "o", "i", "n", "t", ".", "c", "o", "m", "/", "v", "2", "/", "u", "r", "l">>,
      <<"h", "t", "t", "p", "s", ":", "/", "/", "u", "r", "l", "d", "e", "f", "e", "n", "s", "e", ".", "c", "o", "m", "/", "v", "3", "/">>,
      <<"h", "t", "t", "p", "s", ":", "/", "/", "u", "r", "l", "d", "e", "f", "e", "n", "s", "e", ".", "u", "s", "/", "v", "1", "/", "u", "r", "l">>,
      <<"H", "T", "T", "P", ":", "/", "x", "/">>,
      <<"h", "t", "t", "p", ":", "/", "/">> }

FormatFrags ==
    { <<"?", "u", "r", "l", "=", "h", "t", "t", "p", "%", "3", "A", "%", "2", "F", "%", "2", "F", "b", "a", "r", ".", "c", "o", "m">>,
      <<"?", "u", "=", "h", "t", "t", "p", "-", "3", "A", "_", "_", "b", "a", "r", ".", "c", "o", "m">>,
      <<"?", "u", "r", "l", "=", "h", "x", "x", "p", ":", "/", "/", "b", "[", ".", "]", "i", "o", "&", "u", "r", "l", "=", "x", "&", "u", "=", "c", "_", "d", "&", "u", "=", "e">>,
      <<"_", "_", "h", "t", "t", "p", ":", "/", "/", "b", "a", "r", ".", "c", "o", "m", "/", "p", "_", "_", ";", "a", "b", "c", "1", "2", "3", "!">>,
      <<"_", "_", ";">>,
      <<"%", "2", "5", "4", "1">>,
      <<"&", "#", "3", "7", ";", "4", "1", "&", "a", "m", "p", ";", "a", "m", "p", ";">>,
      <<"%", "5", "B", ".", "%", "5", "D">>,
      <<"?", "k", "=", "a", "-", "b", "_", "c">>,
      <<"h", "t", "t", "p", ":", "/", "y">>,
      <<"%", "5", "B", "a", "b", "c">>,
      <<"?", "u", "r", "l", "=">> }

FormatInputs == {h \o b : h \in FormatHeads, b \in Concats(FormatFrags, MaxFrags)}

InitFormat ==
    /\ input \in FormatInputs
    /\ strict \in BOOLEAN
    /\ pc = "ready"
    /\ call = NoCall
    /\ results = <<>>
    /\ errors = <<>>
    /\ log = <<>>
    /\ fetches = 0

\* format_url(input)
CallFormatUrl ==
    /\ pc = "ready"
    /\ \E order \in PrefixOrders :
        \E r \in {format_url(input, strict, order)} :
            /\ call' = [fn |-> "format_url", arg |-> input, exc |-> r.exc, ret |-> r.ret]
            /\ log' = log \o r.notes
    /\ pc' = "done"
    /\ UNCHANGED <<input, strict, results, errors, fetches>>

\* get_redirect_url_from_query(input, urlparse(input), name)
CallGetRedirectUrlFromQuery ==
    /\ pc = "ready"
    /\ \E parse_results \in {urlparse(input, strict)},
          name \in { <<"u", "r", "l">>, <<"u">> } :
        /\ parse_results.exc = "none"
        /\ \E r \in {get_redirect_url_from_query(input, parse_results.query, name)} :
            /\ call' = [fn |-> "get_redirect_url_from_query", arg |-> input,
                        param |-> name, exc |-> "none", ret |-> r.ret]
            /\ log' = log \o r.notes
    /\ pc' = "done"
    /\ UNCHANGED <<input, strict, results, errors, fetches>>

\* get_redirect_url_proof_point_v2(input, urlparse(input))
CallGetRedirectUrlProofPointV2 ==
    /\ pc = "ready"
    /\ \E parse_results \in {urlparse(input, strict)} :
        /\ parse_results.exc = "none"
        /\ \E r \in {get_redirect_url_proof_point_v2(input, parse_results.query)} :
            /\ call' = [fn |-> "get_redirect_url_proof_point_v2", arg |-> input,
                       param |-> <<"u">>, exc |-> "none", ret |-> r.ret]
           /\ log' = log \o r.notes
    /\ pc' = "done"
    /\ UNCHANGED <<input, strict, results, errors, fetches>>

\* get_redirect_url_proof_point_v3(input)
CallGetRedirectUrlProofPointV3 ==
    /\ pc = "ready"
    /\ \E r \in {get_redirect_url_proof_point_v3(input)} :
           /\ call' = [fn |-> "get_redirect_url_proof_point_v3", arg |-> input,
                       exc |-> "none", ret |-> r.ret]
           /\ log' = log \o r.notes
    /\ pc' = "done"
    /\ UNCHANGED <<input, strict, results, errors, fetches>>

NextFormat ==
    \/ CallFormatUrl
    \/ CallGetRedirectUrlFromQuery
    \/ CallGetRedirectUrlProofPointV2
    \/ CallGetRedirectUrlProofPointV3

SpecFormat == InitFormat /\ [][NextFormat]_vars

(***************************************************************************)
(* The script: main is invoked with the argument `input`; expand_url can   *)
(* be invoked on it alone.                                                 *)
(***************************************************************************)
PlainUrls ==
    { <<"h", "t", "t", "p", ":", "/", "/", "e", "x", "a", "m", "p", "l", "e", ".", "c", "o", "m">>,
      <<"h", "t", "t", "p", "s", ":", "/", "/", "b", "i", "t", ".", "l", "y", "/", "x">>,
      <<"e", "x", "a", "m", "p", "l", "e", ".", "c", "o", "m">> }

MainInputs == {Str(x) : x \in FormatInputs \cup PlainUrls} \cup {NoneValue, IntValue}

Init ==
    /\ input \in MainInputs
    /\ strict \in BOOLEAN
    /\ pc = "ready"
    /\ call = NoCall
    /\ results = <<>>
    /\ errors = <<>>
    /\ log = <<>>
    /\ fetches = 0

\* main(), with demisto.args() = {'input': input}
Main ==
    /\ pc = "ready"
    /\ \E outcome \in UrlopenOutcomes(input), order \in PrefixOrders :
        \E r \in {main(input, outcome, strict, order)} :
            /\ call' = [fn |-> "main", arg |-> input, fetch |-> outcome, exc |-> r.exc]
            /\ results' = results \o r.results
            /\ errors' = errors \o r.errors
            /\ log' = log \o r.log
    /\ fetches' = fetches + 1
    /\ pc' = "done"
    /\ UNCHANGED <<input, strict>>

\* expand_url(input)
CallExpandUrl ==
    /\ pc = "ready"
    /\ \E outcome \in UrlopenOutcomes(input) :
        \E r \in {expand_url(input, outcome)} :
            call' = [fn |-> "expand_url", arg |-> input, fetch |-> outcome,
                     exc |-> r.exc, ret |-> r.ret]
    /\ fetches' = fetches + 1
    /\ pc' = "done"
    /\ UNCHANGED <<input, strict, results, errors, log>>

Next == Main \/ CallExpandUrl

Spec == Init /\ [][Next]_vars

(***************************************************************************)
(* Claims about main and expand_url (checked under Spec).                  *)
(***************************************************************************)
MainDone == pc = "done" /\ call.fn = "main"

\* the Resolution Result of a string argument for the fetch that took place
ResolutionResult(arg, fetch, strictMode) ==
    Only({IF fetch.kind = "ok" THEN {formatted, fetch.url} ELSE {formatted} :
          formatted \in {format_url(arg, strictMode, CHOOSE o \in PrefixOrders : TRUE).ret}})

\* C1: for a string argument main reports the Resolution Result: the set of
\* the Formatted URL and, when the fetch succeeded, the resolved address.
C1_ReportsResolutionResult ==
    (MainDone /\ call.arg.type = "str" /\ call.fetch.kind \in {"ok"} \cup CaughtByExpandUrl)
        => /\ errors = <<>>
           /\ results = <<ResolutionResult(call.arg.val, call.fetch, strict)>>

\* C2: every invocation of main ends with exactly one report, a result or an
\* error message, never both and never neither, and no exception leaves main.
C2_ExactlyOneReport ==
    /\ pc = "ready" => (results = <<>> /\ errors = <<>>)
    /\ MainDone => /\ Len(results) + Len(errors) = 1
                   /\ call.exc = "none"
                   /\ errors # <<>> => errors[1].error # "none"

\* main was invoked on a string whose fetch succeeded and made one report
C2_Witness ==
    /\ MainDone
    /\ call.arg.type = "str"
    /\ call.fetch = Fetched(FinalUrl)
    /\ Len(results) + Len(errors) = 1

\* C3: expand_url never lets an exception out: a failed fetch leaves the set
\* with the input as its only member, after exactly one fetch.
C3_FailureLeavesInputAlone ==
    (pc = "done" /\ call.fn = "expand_url" /\ call.arg.type = "str" /\ call.fetch.kind # "ok")
        => /\ call.exc = "none"
           /\ call.ret = {call.arg.val}
           /\ fetches = 1

(***************************************************************************)
(* Claims about format_url and the unwrappers (checked under SpecFormat).  *)
(***************************************************************************)
FormatCalled == pc = "done" /\ call.fn = "format_url"

AnyOrder == CHOOSE o \in PrefixOrders : TRUE

IsWrapper(s) == AtpMatch(s) \/ ProofPointVersion(s) # <<>>

\* the non-defanged form of a string: dots and scheme restored
Refanged(s) == replace_protocol(Replace(s, BracketDot, <<".">>), AnyOrder)

\* the argument is a Safe-Link wrapper URL written in defanged form
DefangedSafeLink(s) == Contains(s, BracketDot) /\ AtpMatch(Refanged(s))

FullyDecoded(s) == ~Contains(s, BracketDot) /\ unescape(s) = s /\ unquote(s) = s

\* begins with http: or https: written in another case
MixedCaseScheme(s) ==
    \E p \in { <<"h", "t", "t", "p", ":">>, <<"h", "t", "t", "p", "s", ":">> } :
        StartsWith(Lower(s), p) /\ ~StartsWith(s, p)

UnwrapperCalledOnWrapper ==
    /\ pc = "done"
    /\ \/ /\ call.fn = "get_redirect_url_from_query"
          /\ \/ call.param = <<"u", "r", "l">> /\ AtpMatch(call.arg)
             \/ /\ call.param = <<"u">>
                /\ ProofPointVersion(call.arg) \notin { <<>>, <<"v", "2">>, <<"v", "3">> }
       \/ /\ call.fn = "get_redirect_url_proof_point_v2"
          /\ ProofPointVersion(call.arg) = <<"v", "2">>

\* C6: an unwrapper called on a wrapper URL without the expected query
\* parameter returns the URL unchanged and writes exactly one note.
C6_MissingParameter ==
    (/\ UnwrapperCalledOnWrapper
     /\ parse_qs_get(urlparse(call.arg, strict).query, call.param) = <<>>)
        => /\ call.ret = call.arg
           /\ Len(log) = 1

(***************************************************************************)
(* Claims about replace_protocol (checked under SpecProtocol).             *)
(***************************************************************************)
HttpSlashes == <<"h", "t", "t", "p", ":", "/", "/">>

HttpsSlashes == <<"h", "t", "t", "p", "s", ":", "/", "/">>

ProtocolCalled == pc = "done" /\ call.fn = "replace_protocol"

\* the rules of the table whose condition holds for the lowercase copy
FiringRules(lowercase_url) ==
    {i \in DOMAIN PREFIX_CHANGES : RuleFires(PREFIX_CHANGES[i], lowercase_url)}

\* C7: every string that begins with an upper/lower-case variant of a
\* configured token comes back beginning with http.
C7_CaseInsensitivePrefix ==
    (ProtocolCalled /\ \E t \in PREFIX_TO_NORMALIZE : StartsWith(Lower(call.arg), Lower(t)))
        => /\ StartsWith(call.ret, HTTP)
           /\ Len(call.ret) >= Len(call.arg)

\* the part of the argument after its leading token and malformed prefix
UntouchedSuffix(arg) ==
    LET afterToken == IF \E t \in PREFIX_TO_NORMALIZE : StartsWith(arg, t)
                      THEN HTTP \o Drop(arg, Len(HTTP)) ELSE arg
        firing == FiringRules(Lower(afterToken))
    IN  IF firing = {} THEN Drop(afterToken, Len(HTTP))
        ELSE Drop(afterToken,
                  Len(PREFIX_CHANGES[CHOOSE i \in firing : \A j \in firing : i <= j].starts_with))

\* C8: only the scheme prefix at the start changes: the characters after the
\* matched leading token or malformed prefix are the same in the output.
C8_OnlyPrefixChanges ==
    (ProtocolCalled /\ call.ret # call.arg) => EndsWith(call.ret, UntouchedSuffix(call.arg))

\* C9: an input whose prefix, compared case-insensitively, is one of the six
\* malformed forms comes back beginning with http:// or https://.
C9_MalformedPrefixRepaired ==
    (ProtocolCalled /\ FiringRules(Lower(call.arg)) # {})
        => StartsWith(call.ret, HttpSlashes) \/ StartsWith(call.ret, HttpsSlashes)

RECURSIVE FirstMatchOnly(_, _, _)
\* the rule table evaluated by priority, stopping at the first rule that fires
FirstMatchOnly(url_, lowercase_url, i) ==
    IF i > Len(PREFIX_CHANGES) THEN url_
    ELSE IF RuleFires(PREFIX_CHANGES[i], lowercase_url)
         THEN Replace(url_, PREFIX_CHANGES[i].starts_with, PREFIX_CHANGES[i].to_replace)
         ELSE FirstMatchOnly(url_, lowercase_url, i + 1)

\* C10: the rule-table pass is first-match-only evaluation: at most one rule
\* fires, visiting all six rules gives what stopping at the first firing rule
\* gives, and a string beginning with http:// or https:// is left unchanged.
C10_FirstMatchOnly ==
    ProtocolCalled =>
        /\ Cardinality(FiringRules(Lower(call.mid))) <= 1
        /\ call.ret = FirstMatchOnly(call.mid, Lower(call.mid), 1)
        /\ (StartsWith(call.mid, HttpSlashes) \/ StartsWith(call.mid, HttpsSlashes))
              => call.ret = call.mid

\* a rule of the table fired and substituted the malformed prefix
C10_Witness ==
    /\ ProtocolCalled
    /\ FiringRules(Lower(call.mid)) # {}
    /\ call.ret # call.mid
    /\ StartsWith(call.ret, HttpSlashes)

=============================================================================
